---- MODULE Spec2Model ----
(***************************************************************************)
(* Model of proofchain/grpc.go: the gRPC connection pool (GRPCClient), the *)
(* stream workers (runSingleStream), the round-robin distributor           *)
(* (runMultiStream) and the session controller (MultiStreamClient).        *)
(*                                                                         *)
(* Events are numbered in the order the producers submit them.  A Go nil   *)
(* pointer is the empty tuple << >> and a non-nil pointer is << value >>.  *)
(* An unrecovered Go panic stops the whole process: it is recorded in      *)
(* `crash` and no step follows it.                                         *)
(***************************************************************************)
EXTENDS Integers, Sequences, FiniteSets, Bags, TLC

\* ------------------------------------------------------------------ bounds
\* Largest numStreams configured (WithNumStreams).
MaxStreams == 3
\* Number of events the producers submit in one behaviour.
MaxEvents == 4
\* Capacity of the session's inbound channel (10000 in the source).
EventChanCap == 2
\* Capacity of each per-stream channel (1000 in the source).
StreamChanCap == 2
\* Number of threads calling Start, Flush and Close concurrently.
MaxCallers == 2
\* Most connections dialled over the life of a pool.
MaxDials == 6
\* Longest endpoint given to WithGRPCEndpoint, in characters.
MaxEndpointLen == 5
\* Largest value given to WithRetries.
MaxRetries == 3

Streams == 0 .. (MaxStreams - 1)
\* Where a call of Start, Flush or Close can be after its first step.
\* A Close that found the session started and its pipeline not complete (and
\* so closed eventChan) is at "closeWaitRun" and then "closePoolRun".
Positions == {"startLaunch", "flushWait", "flushRead", "closeWait",
              "closePool", "closeWaitRun", "closePoolRun"}

VARIABLES
    ctor,          \* the constructor call that makes the client: its name, its
                   \* options, and whether it has built the client yet
    endpoint,      \* GRPCClient.endpoint, a sequence of characters
    useTLS,        \* GRPCClient.useTLS
    numStreams,    \* GRPCClient.numStreams (0 while the client is not constructed)
    conns,         \* len(GRPCClient.conns)
    connList,      \* GRPCClient.conns: connection handles, NilConn for a nil entry
    openConns,     \* the connection handles that are dialled and not closed
    nextConn,      \* history: number of connections dialled so far
    poolRes,       \* history: the latest Connect or Close called on the pool itself
    ctxCancelled,  \* the context given to Start has been cancelled
    started,       \* MultiStreamClient.started
    wgCount,       \* MultiStreamClient.wg counter
    eventChan,     \* MultiStreamClient.eventChan: buffered events
    eventClosed,   \* eventChan has been closed
    doneClosed,    \* MultiStreamClient.doneChan has been closed
    stats,         \* MultiStreamClient.stats
    err,           \* MultiStreamClient.err
    ppc,           \* position of the background goroutine of Start
    numConns,      \* StreamEvents' local numConns
    mNumConns,     \* runMultiStream's local numConns
    idx,           \* runMultiStream's idx
    held,          \* event read by the distributor, not yet forwarded
    streamChans,   \* runMultiStream's streamChans: buffered events
    streamClosed,  \* the per-stream channels have been closed
    wpc,           \* position of each stream worker goroutine
    wcnt,          \* each worker's (sent, success, failed) in runSingleStream
    wconn,         \* the connection handle each worker's runSingleStream was given
    openFailed,    \* history: the workers whose connection was not open when they started
    consumed,      \* history: the events each worker took from its channel, in order
    sendErrs,      \* history kept by SpecStream (Nil elsewhere): per worker, the
                   \* events it took while its connection was not open
    totals,        \* runMultiStream's sent, success, failed
    calls,         \* number of calls in flight at each position after their first step
    flushRes,      \* what the latest Flush to return returned
    flushSeq,      \* the Flush that closed eventChan was called with no Start in flight
    nextId,        \* history: number of events submitted so far
    rejected,      \* history: events whose submission returned without enqueueing
    dropped,       \* history: events Send refused on a started session (full buffer)
    usedSend,      \* history: Send has been called
    launched,      \* history: number of background goroutines launched by Start
    restarted,     \* history: a Start call found the session already started
    lateStart,     \* history kept by SpecLifecycle ("off" elsewhere): "yes" once a
                   \* Start call was made after eventChan was closed, "no" before
    distRead,      \* history: events read by runMultiStream, in order
    assigned,      \* history: events placed in each per-stream channel, in order
    crash,         \* the panic that stopped the process, or "none"
    http           \* the HTTP client and its one executeRequest call:
                   \*   maxRetries  HTTPClient.maxRetries
                   \*   pc          "none" (no client), "ready", "loop", "returned"
                   \*   attempt     executeRequest's loop variable
                   \*   lastErr     executeRequest's lastErr
                   \*   res         what executeRequest returned
                   \*   ctxDone     the request's context is cancelled or expired
                   \*   tries       history: what each c.httpClient.Do met, in order

vars == << ctor, endpoint, useTLS, numStreams, conns, connList, openConns, nextConn, poolRes,
           ctxCancelled, started, wgCount, eventChan, eventClosed,
           doneClosed, stats, err, ppc, numConns, mNumConns, idx, held,
           streamChans, streamClosed, wpc, wcnt, wconn, openFailed, consumed,
           sendErrs, totals, calls, flushRes,
           flushSeq, nextId, rejected, dropped, usedSend, launched,
           restarted, lateStart, distRead, assigned, crash, http >>

\* What the calls on a session leave alone, the pool's Close apart.
poolVars == << connList, openConns, nextConn, poolRes >>
clientVars == << ctor, endpoint, useTLS, numStreams >>
cfgVars == << clientVars, poolVars, ctxCancelled >>
\* The fields of MultiStreamClient and of the pool behind it.
sessionVars == << conns, started, wgCount, eventChan, eventClosed, doneClosed,
                  stats, err >>
\* The background goroutine and its workers.
workerHist == << wconn, openFailed, consumed, sendErrs >>
pipeVars == << ppc, numConns, mNumConns, idx, held, streamChans, streamClosed,
               wpc, wcnt, totals, distRead, assigned, workerHist >>
histVars == << nextId, rejected, dropped, usedSend, launched, restarted,
              lateStart >>

Nil == << >>
\* A nil entry of c.conns, as make([]*grpc.ClientConn, n) creates them.
NilConn == 0
NoErr == "nil"
\* No HTTP client has been made.
NoHTTPClient ==
    [maxRetries |-> 0, pc |-> "none", attempt |-> 0, lastErr |-> Nil,
     res |-> Nil, ctxDone |-> FALSE, tries |-> << >>]
ErrNotStarted == "client not started"
ErrNotConnected == "not connected, call Connect() first"

ZeroCount == [sent |-> 0, success |-> 0, failed |-> 0]

\* The sum of the natural numbers f[x], x in S: the size of the bag that holds
\* x f[x] times.
SumOver(f, S) == BagCardinality([x \in {y \in S : f[y] > 0} |-> f[x]])

Range(q) == { q[i] : i \in 1 .. Len(q) }

\* ------------------------------------------------- options and constructors
\* Endpoints are sequences of characters, so that strings.Contains is
\* computed and not assumed; the host part is left out of them.
EndpointChars == {":", "4", "3"}
Endpoints == UNION { [1 .. k -> EndpointChars] : k \in 0 .. MaxEndpointLen }
\* defaultGRPCEndpoint, "grpc.proofchain.co.za:443", without its host.
DefaultEndpoint == << ":", "4", "4", "3" >>
\* The text ":443" NewGRPCClient looks for.
SecureMark == << ":", "4", "4", "3" >>

\* strings.Contains(s, t)
Contains(s, t) ==
    \E i \in 0 .. (Len(s) - Len(t)) : SubSeq(s, i + 1, i + Len(t)) = t

\* The functional options; a field an option does not use holds a zero value.
WithGRPCEndpoint(e) ==
    [opt |-> "WithGRPCEndpoint", endpoint |-> e, enabled |-> FALSE, n |-> 0]
WithTLS(b) ==
    [opt |-> "WithTLS", endpoint |-> << >>, enabled |-> b, n |-> 0]
WithNumStreams(n) ==
    [opt |-> "WithNumStreams", endpoint |-> << >>, enabled |-> FALSE, n |-> n]

\* opt(c): what each option's closure does to the client.
ApplyOptionUnchecked(c, o) ==
    IF o.opt = "WithGRPCEndpoint" THEN [c EXCEPT !.endpoint = o.endpoint]
    ELSE IF o.opt = "WithTLS" THEN [c EXCEPT !.useTLS = o.enabled]
    ELSE [c EXCEPT !.numStreams = o.n]

ApplyOption(c, o) ==
    IF o.opt = "WithGRPCEndpoint" THEN [c EXCEPT !.endpoint = o.endpoint]
    ELSE IF o.opt = "WithTLS" THEN [c EXCEPT !.useTLS = o.enabled]
    ELSE IF o.n > 0 THEN [c EXCEPT !.numStreams = o.n]
    ELSE c

\* for _, opt := range opts { opt(c) }
RECURSIVE ApplyOptions(_, _)
ApplyOptions(c, opts) ==
    IF opts = << >> THEN c
    ELSE ApplyOptions(ApplyOption(c, Head(opts)), Tail(opts))

\* "Auto-detect TLS based on port": the last statement of NewGRPCClient.
AutoTLSKeeps(e, tls) == tls
AutoTLS(e, tls) == IF ~Contains(e, SecureMark) /\ tls THEN FALSE ELSE tls

NewGRPCClient(opts) ==
    LET c == ApplyOptions([endpoint |-> DefaultEndpoint, useTLS |-> TRUE,
                           numStreams |-> 1], opts)
    IN [c EXCEPT !.useTLS = AutoTLS(c.endpoint, @)]

\* The client a constructor call makes; NewMultiStreamClient puts its default
\* WithNumStreams(4) before the caller's options.
Construct(call) ==
    IF call.kind = "NewMultiStreamClient"
    THEN NewGRPCClient(<< WithNumStreams(4) >> \o call.opts)
    ELSE NewGRPCClient(call.opts)

\* The transport credentials dialEndpoint chooses.
DialCreds(tls) == IF tls THEN "tls" ELSE "insecure"

\* ------------------------------------------------------------------- Init
\* A client made by the constructor kind with WithNumStreams(n) as its only
\* option.
InitClient(kind) ==
    \E n \in 1 .. MaxStreams :
        /\ ctor = [kind |-> kind, opts |-> << WithNumStreams(n) >>,
                   built |-> TRUE]
        /\ endpoint = Construct(ctor).endpoint
        /\ useTLS = Construct(ctor).useTLS
        /\ numStreams = Construct(ctor).numStreams

\* Both channels are open and empty, nothing has started, no call is in
\* flight.
InitIdle ==
    /\ started = FALSE
    /\ wgCount = 0
    /\ eventChan = << >>
    /\ eventClosed = FALSE
    /\ doneClosed = FALSE
    /\ stats = Nil
    /\ err = NoErr
    /\ ppc = "none"
    /\ numConns = 0
    /\ mNumConns = 0
    /\ idx = 0
    /\ held = Nil
    /\ streamChans = [w \in Streams |-> << >>]
    /\ streamClosed = FALSE
    /\ wpc = [w \in Streams |-> "none"]
    /\ wcnt = [w \in Streams |-> ZeroCount]
    /\ wconn = [w \in Streams |-> NilConn]
    /\ openFailed = {}
    /\ consumed = [w \in Streams |-> << >>]
    /\ totals = ZeroCount
    /\ calls = [p \in Positions |-> 0]
    /\ flushRes = Nil
    /\ flushSeq = FALSE
    /\ nextId = 0
    /\ rejected = {}
    /\ dropped = {}
    /\ usedSend = FALSE
    /\ launched = 0
    /\ restarted = FALSE
    /\ distRead = << >>
    /\ assigned = [w \in Streams |-> << >>]
    /\ crash = "none"
    /\ http = NoHTTPClient

\* The state NewMultiStreamClient returns, the pool apart.
InitSession ==
    /\ InitClient("NewMultiStreamClient")
    /\ InitIdle

\* The pool after the successful Connect of NewMultiStreamClient.
InitConnected ==
    /\ conns = numStreams
    /\ connList = [i \in 1 .. numStreams |-> i]
    /\ openConns = 1 .. numStreams
    /\ nextConn = numStreams
    /\ poolRes = Nil

Init ==
    /\ InitSession
    /\ InitConnected
    /\ lateStart = "off"
    /\ sendErrs = Nil
    /\ ctxCancelled = FALSE

Running == crash = "none"

\* A thread is free to begin a call of Start, Flush or Close.
FreeCaller == SumOver(calls, Positions) < MaxCallers

Enter(p) == [calls EXCEPT ![p] = @ + 1]
Move(p, q) == [calls EXCEPT ![p] = @ - 1, ![q] = @ + 1]
Leave(p) == [calls EXCEPT ![p] = @ - 1]

\* -------------------------------------------------- MultiStreamClient.Start
\* Start's test of c.started under c.mu: TRUE when the call goes on to launch.
StartProceedsAlways(st) == TRUE
StartProceeds(st) == ~st

\* Start up to c.mu.Unlock(): a call that finds started set returns at once.
Start ==
    /\ Running
    /\ FreeCaller
    /\ IF StartProceeds(started)
       THEN /\ started' = TRUE
            /\ calls' = Enter("startLaunch")
            /\ UNCHANGED restarted
       ELSE /\ restarted' = TRUE
            /\ UNCHANGED << started, calls >>
    /\ lateStart' = IF lateStart = "no" /\ eventClosed THEN "yes" ELSE lateStart
    /\ UNCHANGED << http, cfgVars, conns, wgCount, eventChan, eventClosed,
                    doneClosed, stats, err, pipeVars, flushRes, flushSeq,
                    nextId, rejected, dropped, usedSend, launched, crash >>

\* Start after the unlock: c.wg.Add(1) and the go statement.
StartLaunch ==
    /\ Running
    /\ calls["startLaunch"] > 0
    /\ wgCount' = wgCount + 1
    /\ ppc' = "streamEvents"
    /\ launched' = launched + 1
    /\ calls' = Leave("startLaunch")
    /\ UNCHANGED << http, cfgVars, workerHist, conns, started, eventChan, eventClosed,
                    doneClosed, stats, err, numConns, mNumConns, idx, held,
                    streamChans, streamClosed, wpc, wcnt, totals, distRead,
                    assigned, flushRes, flushSeq, nextId, rejected, dropped,
                    usedSend, restarted, lateStart, crash >>

\* --------------------------------------------------- MultiStreamClient.Send
\* Send on an open channel: false when started is not set; otherwise the
\* select, which takes the send case when the buffer has room and the default
\* case when it has none.
SendStepIgnoresStarted(st, q, e) ==
    IF Len(q) < EventChanCap
    THEN [ok |-> TRUE, chan |-> Append(q, e)]
    ELSE [ok |-> FALSE, chan |-> q]
SendStepOverfills(st, q, e) ==
    IF st /\ Len(q) <= EventChanCap
    THEN [ok |-> TRUE, chan |-> Append(q, e)]
    ELSE [ok |-> FALSE, chan |-> q]
SendStepAlwaysQueues(st, q, e) ==
    [ok |-> st /\ Len(q) < EventChanCap,
     chan |-> IF st THEN Append(q, e) ELSE q]
SendStep(st, q, e) ==
    IF st /\ Len(q) < EventChanCap
    THEN [ok |-> TRUE, chan |-> Append(q, e)]
    ELSE [ok |-> FALSE, chan |-> q]

\* One call of Send.  started only ever goes from false to true: a call that
\* read it as false is a step taken at that read, a call that read it as true
\* is a step taken at its select.
Send ==
    /\ Running
    /\ nextId < MaxEvents
    /\ usedSend' = TRUE
    /\ IF started /\ eventClosed
       THEN /\ crash' = "Send: send on closed channel"
            /\ UNCHANGED << eventChan, nextId, rejected, dropped >>
       ELSE LET r == SendStep(started, eventChan, nextId) IN
            /\ eventChan' = r.chan
            /\ nextId' = nextId + 1
            /\ rejected' = IF r.ok THEN rejected ELSE rejected \cup {nextId}
            /\ dropped' = IF ~r.ok /\ started
                          THEN dropped \cup {nextId} ELSE dropped
            /\ UNCHANGED crash
    /\ UNCHANGED << http, cfgVars, conns, started, wgCount, eventClosed,
                    doneClosed, stats, err, pipeVars, calls, flushRes,
                    flushSeq, launched, restarted, lateStart >>

\* ------------------------------------------- MultiStreamClient.SendBlocking
\* c.eventChan <- event on an open channel: ready when the buffer has room.
SendBlockingStepDropsWhenFull(q, e) ==
    [ready |-> TRUE,
     chan |-> IF Len(q) < EventChanCap THEN Append(q, e) ELSE q]
SendBlockingStep(q, e) ==
    [ready |-> Len(q) < EventChanCap, chan |-> Append(q, e)]

\* One call of SendBlocking, at the moment its channel send completes.  A call
\* suspended on a full buffer is a call whose step has not been taken yet.
SendBlocking ==
    /\ Running
    /\ nextId < MaxEvents
    /\ IF eventClosed
       THEN /\ crash' = "SendBlocking: send on closed channel"
            /\ UNCHANGED << eventChan, nextId, rejected >>
       ELSE LET r == SendBlockingStep(eventChan, nextId) IN
            /\ r.ready
            /\ eventChan' = r.chan
            /\ nextId' = nextId + 1
            /\ rejected' = IF nextId \in Range(r.chan)
                           THEN rejected ELSE rejected \cup {nextId}
            /\ UNCHANGED crash
    /\ UNCHANGED << http, cfgVars, conns, started, wgCount, eventClosed,
                    doneClosed, stats, err, pipeVars, calls, flushRes,
                    flushSeq, dropped, usedSend, launched, restarted,
                    lateStart >>

\* -------------------------------------------------- MultiStreamClient.Flush
\* Flush's test of c.started under c.mu: TRUE when the call goes on.
FlushProceedsAlways(st) == TRUE
FlushProceeds(st) == st

\* Flush up to close(c.eventChan).  The test of started and the close are one
\* step: started never goes back to false, so a close delayed after the test
\* behaves as a call made at the time of the close.
Flush ==
    /\ Running
    /\ FreeCaller
    /\ IF ~FlushProceeds(started)
       THEN /\ flushRes' = << [stats |-> Nil, err |-> ErrNotStarted] >>
            /\ UNCHANGED << eventClosed, calls, flushSeq, crash >>
       ELSE IF eventClosed
       THEN /\ crash' = "Flush: close of closed channel"
            /\ UNCHANGED << eventClosed, calls, flushRes, flushSeq >>
       ELSE /\ eventClosed' = TRUE
            /\ calls' = Enter("flushWait")
            /\ flushSeq' = (calls["startLaunch"] = 0)
            /\ UNCHANGED << flushRes, crash >>
    /\ UNCHANGED << http, cfgVars, conns, started, wgCount, eventChan,
                    doneClosed, stats, err, pipeVars, histVars >>

\* A Flush that does not wait for the counter.
FlushWaitNoWait ==
    /\ Running
    /\ calls["flushWait"] > 0
    /\ calls' = Move("flushWait", "flushRead")
    /\ UNCHANGED << http, cfgVars, sessionVars, pipeVars, flushRes, flushSeq,
                    histVars, crash >>

\* c.wg.Wait() returns once the counter is zero.
FlushWait ==
    /\ Running
    /\ calls["flushWait"] > 0
    /\ wgCount = 0
    /\ calls' = Move("flushWait", "flushRead")
    /\ UNCHANGED << http, cfgVars, sessionVars, pipeVars, flushRes, flushSeq,
                    histVars, crash >>

\* return c.stats, c.err
FlushReturn ==
    /\ Running
    /\ calls["flushRead"] > 0
    /\ flushRes' = << [stats |-> stats, err |-> err] >>
    /\ calls' = Leave("flushRead")
    /\ UNCHANGED << http, cfgVars, sessionVars, pipeVars, flushSeq, histVars,
                    crash >>

\* -------------------------------------------------- MultiStreamClient.Close
\* Close under c.mu: closes eventChan unless doneChan is already closed.
Close ==
    /\ Running
    /\ FreeCaller
    /\ IF started /\ ~doneClosed
       THEN IF eventClosed
            THEN /\ crash' = "Close: close of closed channel"
                 /\ UNCHANGED << eventClosed, calls >>
            ELSE /\ eventClosed' = TRUE
                 /\ calls' = Enter("closeWaitRun")
                 /\ UNCHANGED crash
       ELSE /\ calls' = Enter("closeWait")
            /\ UNCHANGED << eventClosed, crash >>
    /\ UNCHANGED << http, cfgVars, conns, started, wgCount, eventChan,
                    doneClosed, stats, err, pipeVars, flushRes, flushSeq,
                    histVars >>

\* c.wg.Wait() in Close.
CloseWait ==
    /\ Running
    /\ wgCount = 0
    /\ \/ /\ calls["closeWait"] > 0
          /\ calls' = Move("closeWait", "closePool")
       \/ /\ calls["closeWaitRun"] > 0
          /\ calls' = Move("closeWaitRun", "closePoolRun")
    /\ UNCHANGED << http, cfgVars, sessionVars, pipeVars, flushRes, flushSeq,
                    histVars, crash >>

\* ---------------------------------------------------------- GRPCClient.Close
\* Closes every connection of the pool and sets c.conns = nil.
PoolClose ==
    /\ Running
    /\ conns' = 0
    /\ connList' = << >>
    /\ openConns' = {}
    /\ \/ /\ calls["closePool"] > 0
          /\ calls' = Leave("closePool")
       \/ /\ calls["closePoolRun"] > 0
          /\ calls' = Leave("closePoolRun")
    /\ UNCHANGED << http, clientVars, nextConn, poolRes, ctxCancelled, started,
                    wgCount, eventChan, eventClosed, doneClosed, stats, err,
                    pipeVars, flushRes, flushSeq, histVars, crash >>

\* ----------------------------------------------- the goroutine Start launches
\* c.stats = stats; c.err = err; close(c.doneChan); deferred c.wg.Done().
\* No other code reads c.stats, c.err or doneChan between these statements
\* with a different outcome than before or after all of them. When
\* StreamEvents was called by the user and not by Start's goroutine, stats and
\* err are the two results the caller receives and nothing else happens.
Finish(s, e) ==
    /\ stats' = s
    /\ err' = e
    /\ ppc' = "done"
    /\ IF launched > 0
       THEN /\ doneClosed' = TRUE
            /\ wgCount' = wgCount - 1
       ELSE UNCHANGED << doneClosed, wgCount >>

\* StreamStats has no drop counter: a drop count read from it is zero.
TotalDropped(s) == IF "TotalDropped" \in DOMAIN s THEN s.TotalDropped ELSE 0

\* &StreamStats{...} of StreamEvents, without the wall-clock fields.
MakeStats(t, n) ==
    [TotalSent |-> t.sent, TotalSuccess |-> t.success,
     TotalFailed |-> t.failed, ActiveStreams |-> n]

\* ---------------------------------------------------- GRPCClient.StreamEvents
\* numConns == 1
SingleModeNever(n) == FALSE
SingleMode(n) == n = 1

\* len(c.conns) == 0
NotConnectedNever(n) == FALSE
NotConnected(n) == n = 0

\* The connection check under c.mu.RLock().
StreamEvents ==
    /\ Running
    /\ ppc = "streamEvents"
    /\ IF NotConnected(conns)
       THEN /\ Finish(Nil, ErrNotConnected)
            /\ UNCHANGED numConns
       ELSE /\ numConns' = conns
            /\ ppc' = IF SingleMode(conns) THEN "singleCall" ELSE "multiCall"
            /\ UNCHANGED << stats, err, doneClosed, wgCount >>
    /\ UNCHANGED << http, cfgVars, workerHist, conns, started, eventChan, eventClosed,
                    mNumConns, idx, held, streamChans, streamClosed, wpc,
                    wcnt, totals, distRead, assigned, calls, flushRes, flushSeq,
                    histVars, crash >>

\* ------------------------------------------------- GRPCClient.runSingleStream
\* The body of the loop over the events: sent++, success++.
CountEventNoSuccess(c) == [c EXCEPT !.sent = @ + 1]
CountEvent(c) == [c EXCEPT !.sent = @ + 1, !.success = @ + 1]

\* Single stream mode: the call c.runSingleStream(ctx, c.conns[0], events)
\* reads c.conns[0] without the lock.
SingleCall ==
    /\ Running
    /\ ppc = "singleCall"
    /\ IF conns = 0
       THEN /\ crash' = "index out of range"
            /\ UNCHANGED ppc
       ELSE /\ ppc' = "single"
            /\ UNCHANGED crash
    /\ wconn' = [wconn EXCEPT ![0] = IF conns = 0 THEN @ ELSE connList[1]]
    /\ openFailed' = IF conns # 0 /\ connList[1] \notin openConns
                     THEN {0} ELSE {}
    /\ UNCHANGED << http, cfgVars, consumed, sendErrs, sessionVars, numConns, mNumConns, idx, held,
                    streamChans, streamClosed, wpc, wcnt, totals, distRead,
                    assigned, calls, flushRes, flushSeq, histVars >>

\* The history of the events a worker took while the connection it was given
\* was nil or closed, where that history is kept.
CountSendError(w) ==
    IF sendErrs = Nil \/ wconn[w] \in openConns THEN sendErrs
    ELSE [sendErrs EXCEPT ![w] = @ + 1]

\* A receive from a channel that holds events: the oldest one.
ReceiveNewest(q) == [event |-> q[Len(q)], rest |-> SubSeq(q, 1, Len(q) - 1)]
Receive(q) == [event |-> Head(q), rest |-> Tail(q)]

\* Single stream mode: one iteration of runSingleStream on eventChan.
SingleRecv ==
    /\ Running
    /\ ppc = "single"
    /\ eventChan # << >>
    /\ eventChan' = Receive(eventChan).rest
    /\ consumed' = [consumed EXCEPT ![0] = Append(@, Receive(eventChan).event)]
    /\ wcnt' = [wcnt EXCEPT ![0] = CountEvent(@)]
    /\ sendErrs' = CountSendError(0)
    /\ UNCHANGED << http, cfgVars, wconn, openFailed, conns, started, wgCount, eventClosed,
                    doneClosed, stats, err, ppc, numConns, mNumConns, idx,
                    held, streamChans, streamClosed, wpc, totals, distRead,
                    assigned, calls, flushRes, flushSeq, histVars, crash >>

\* Single stream mode: eventChan is closed and drained, runSingleStream and
\* StreamEvents return.
SingleReturn ==
    /\ Running
    /\ ppc = "single"
    /\ eventChan = << >>
    /\ eventClosed
    /\ Finish(<< MakeStats(wcnt[0], numConns) >>, NoErr)
    /\ UNCHANGED << http, cfgVars, workerHist, conns, started, eventChan, eventClosed,
                    numConns, mNumConns, idx, held, streamChans, streamClosed,
                    wpc, wcnt, totals, distRead, assigned, calls, flushRes,
                    flushSeq, histVars, crash >>

\* -------------------------------------------------- GRPCClient.runMultiStream
\* streamChans[idx%numConns]
StreamIndexFirst(i, n) == 0
StreamIndex(i, n) == i % n

\* streamChans[t] <- event
ForwardToAll(chs, t, e) == [w \in Streams |-> Append(chs[w], e)]
Forward(chs, t, e) == [chs EXCEPT ![t] = Append(@, e)]

\* atomic.AddInt64 of a worker's three results.
AddTotalsMiscountsFailed(t, c) ==
    [sent |-> t.sent + c.sent, success |-> t.success + c.success,
     failed |-> t.failed + c.failed + 1]
AddTotals(t, c) ==
    [sent |-> t.sent + c.sent, success |-> t.success + c.success,
     failed |-> t.failed + c.failed]

Workers == 0 .. (mNumConns - 1)

\* runMultiStream up to the distribution loop: reads len(c.conns) again,
\* makes the per-stream channels and starts one worker per connection.
MultiCall ==
    /\ Running
    /\ ppc = "multiCall"
    /\ mNumConns' = conns
    /\ wpc' = [w \in Streams |-> IF w < conns THEN "run" ELSE "none"]
    /\ ppc' = "dist"
    /\ wconn' = [w \in Streams |->
                     IF w < conns THEN connList[w + 1] ELSE NilConn]
    /\ openFailed' = { w \in Streams :
                         w < conns /\ connList[w + 1] \notin openConns }
    /\ UNCHANGED << http, cfgVars, consumed, sendErrs, sessionVars, numConns, idx, held, streamChans,
                    streamClosed, wcnt, totals, distRead, assigned, calls,
                    flushRes, flushSeq, histVars, crash >>

\* for event := range events: the receive.
DistRecv ==
    /\ Running
    /\ ppc = "dist"
    /\ held = Nil
    /\ eventChan # << >>
    /\ held' = << Receive(eventChan).event >>
    /\ eventChan' = Receive(eventChan).rest
    /\ distRead' = Append(distRead, Receive(eventChan).event)
    /\ UNCHANGED << http, cfgVars, workerHist, conns, started, wgCount, eventClosed,
                    doneClosed, stats, err, ppc, numConns, mNumConns, idx,
                    streamChans, streamClosed, wpc, wcnt, totals, assigned,
                    calls, flushRes, flushSeq, histVars, crash >>

\* streamChans[idx%numConns] <- event; idx++
DistSend ==
    /\ Running
    /\ ppc = "dist"
    /\ held # Nil
    /\ IF mNumConns = 0
       THEN /\ crash' = "integer divide by zero"
            /\ UNCHANGED << held, idx, streamChans, assigned >>
       ELSE LET t == StreamIndex(idx, mNumConns)
                after == Forward(streamChans, t, held[1]) IN
            /\ Len(streamChans[t]) < StreamChanCap
            /\ streamChans' = after
            /\ assigned' = [w \in Streams |->
                   IF after[w] # streamChans[w]
                   THEN Append(assigned[w], held[1]) ELSE assigned[w]]
            /\ idx' = idx + 1
            /\ held' = Nil
            /\ UNCHANGED crash
    /\ UNCHANGED << http, cfgVars, workerHist, sessionVars, ppc, numConns, mNumConns,
                    streamClosed, wpc, wcnt, totals, distRead, calls, flushRes,
                    flushSeq, histVars >>

\* A distributor that closes the per-stream channels as soon as the inbound
\* channel is empty.
DistCloseEarly ==
    /\ Running
    /\ ppc = "dist"
    /\ held = Nil
    /\ eventChan = << >>
    /\ streamClosed' = TRUE
    /\ ppc' = "join"
    /\ UNCHANGED << http, cfgVars, workerHist, sessionVars, numConns, mNumConns, idx, held,
                    streamChans, wpc, wcnt, totals, distRead, assigned, calls,
                    flushRes, flushSeq, histVars, crash >>

\* The range loop ends on the closed, drained eventChan; every per-stream
\* channel is closed.
DistClose ==
    /\ Running
    /\ ppc = "dist"
    /\ held = Nil
    /\ eventChan = << >>
    /\ eventClosed
    /\ streamClosed' = TRUE
    /\ ppc' = "join"
    /\ UNCHANGED << http, cfgVars, workerHist, sessionVars, numConns, mNumConns, idx, held,
                    streamChans, wpc, wcnt, totals, distRead, assigned, calls,
                    flushRes, flushSeq, histVars, crash >>

\* A worker goroutine: one iteration of runSingleStream on its channel.
WorkerRecv(w) ==
    /\ Running
    /\ wpc[w] = "run"
    /\ streamChans[w] # << >>
    /\ streamChans' = [streamChans EXCEPT ![w] = Receive(@).rest]
    /\ consumed' = [consumed EXCEPT
                        ![w] = Append(@, Receive(streamChans[w]).event)]
    /\ wcnt' = [wcnt EXCEPT ![w] = CountEvent(@)]
    /\ sendErrs' = CountSendError(w)
    /\ UNCHANGED << http, cfgVars, wconn, openFailed, sessionVars, ppc, numConns, mNumConns, idx,
                    held, streamClosed, wpc, totals, distRead, assigned, calls,
                    flushRes, flushSeq, histVars, crash >>

\* A worker goroutine: its channel is closed and drained, runSingleStream
\* returns, the results are added to the totals, wg.Done().
WorkerExit(w) ==
    /\ Running
    /\ wpc[w] = "run"
    /\ streamChans[w] = << >>
    /\ streamClosed
    /\ totals' = AddTotals(totals, wcnt[w])
    /\ wpc' = [wpc EXCEPT ![w] = "done"]
    /\ UNCHANGED << http, cfgVars, workerHist, sessionVars, ppc, numConns, mNumConns, idx,
                    held, streamChans, streamClosed, wcnt, distRead, assigned,
                    calls, flushRes, flushSeq, histVars, crash >>

\* wg.Wait(): every worker of W has called wg.Done().
JoinedAny(W) == \E w \in W : wpc[w] = "done"
Joined(W) == \A w \in W : wpc[w] = "done"

\* wg.Wait() of runMultiStream returns; runMultiStream and StreamEvents return.
MultiReturn ==
    /\ Running
    /\ ppc = "join"
    /\ Joined(Workers)
    /\ Finish(<< MakeStats(totals, numConns) >>, NoErr)
    /\ UNCHANGED << http, cfgVars, workerHist, conns, started, eventChan, eventClosed,
                    numConns, mNumConns, idx, held, streamChans, streamClosed,
                    wpc, wcnt, totals, distRead, assigned, calls, flushRes,
                    flushSeq, histVars, crash >>

\* ------------------------------------------------------------ specification
Next ==
    \/ Start
    \/ StartLaunch
    \/ Send
    \/ SendBlocking
    \/ Flush
    \/ FlushWait
    \/ FlushReturn
    \/ Close
    \/ CloseWait
    \/ PoolClose
    \/ StreamEvents
    \/ SingleCall
    \/ SingleRecv
    \/ SingleReturn
    \/ MultiCall
    \/ DistRecv
    \/ DistSend
    \/ DistClose
    \/ \E w \in Streams : WorkerRecv(w)
    \/ \E w \in Streams : WorkerExit(w)
    \/ MultiReturn

Spec == Init /\ [][Next]_vars

\* The same program, with the history of late Start calls recorded.
InitLifecycle ==
    /\ InitSession
    /\ InitConnected
    /\ lateStart = "no"
    /\ sendErrs = Nil
    /\ ctxCancelled = FALSE

SpecLifecycle == InitLifecycle /\ [][Next]_vars

\* ------------------------------------------------- the context given to Start
\* The caller cancels the context it passed to Start. Start hands ctx to
\* StreamEvents, which hands it to runSingleStream and runMultiStream; neither
\* reads it, so the cancellation changes nothing but the context itself.
Cancel ==
    /\ Running
    /\ ~ctxCancelled
    /\ ctxCancelled' = TRUE
    /\ UNCHANGED << http, clientVars, poolVars, sessionVars, pipeVars, calls,
                    flushRes, flushSeq, histVars, crash >>

\* A step of the background goroutine or of one of its workers.
PipeNext ==
    \/ StreamEvents
    \/ SingleCall
    \/ SingleRecv
    \/ SingleReturn
    \/ MultiCall
    \/ DistRecv
    \/ DistSend
    \/ DistClose
    \/ \E w \in Streams : WorkerRecv(w)
    \/ \E w \in Streams : WorkerExit(w)
    \/ MultiReturn

NextCancel ==
    \/ Next
    \/ Cancel

SpecCancel == Init /\ [][NextCancel]_vars

\* ------------------------------------------------------ a scheduled pipeline
\* The session used as the README shows it, Start, SendBlocking and Flush,
\* with a scheduler that does not leave the background goroutine and its
\* workers waiting for ever when they can take a step.
NextDrain ==
    \/ Start
    \/ StartLaunch
    \/ SendBlocking
    \/ Flush
    \/ FlushWait
    \/ FlushReturn
    \/ PipeNext

SpecDrain == Init /\ [][NextDrain]_vars /\ WF_vars(PipeNext)

\* The same session with a scheduler that is fair to the calling threads as
\* well: a Start or Flush call that can take its next step takes it.
SpecFair ==
    /\ Init /\ [][NextDrain]_vars
    /\ WF_vars(PipeNext)
    /\ WF_vars(StartLaunch)
    /\ WF_vars(FlushWait)
    /\ WF_vars(FlushReturn)

\* ------------------------------------------------------ GRPCClient.Connect

\* The non-nil entries of a connection list, in order.
Live(list) == SelectSeq(list, LAMBDA c : c # NilConn)

\* The connections Connect closes before it dials: every non-nil entry.
ClosedBeforeDialNone(list) == << >>
ClosedBeforeDial(list) == Live(list)

\* c.conns after the dial loop when the first f dials succeed: fresh handles
\* in the entries 0 .. f-1, nil in the others.
Dialled(n, f, base) == [i \in 1 .. n |-> IF i <= f THEN base + i ELSE NilConn]

\* The connections Connect closes when the dial of index i fails: the non-nil
\* entries 0 .. i-1.
ClosedOnFailureSkipsLast(list, i) == Live(SubSeq(list, 1, i - 1))
ClosedOnFailure(list, i) == Live(SubSeq(list, 1, i))

\* The state NewGRPCClient returns: no connection yet.
InitPool ==
    /\ InitClient("NewGRPCClient")
    /\ InitIdle
    /\ conns = 0
    /\ connList = << >>
    /\ openConns = {}
    /\ nextConn = 0
    /\ poolRes = Nil
    /\ lateStart = "off"
    /\ sendErrs = Nil
    /\ ctxCancelled = FALSE

\* Connect, under c.mu from entry to return; the dials 0 .. f-1 succeed and
\* the dial of index f fails (no dial fails when f = numStreams).
Connect(f) ==
    /\ Running
    /\ nextConn + numStreams <= MaxDials
    /\ LET old == ClosedBeforeDial(connList)
           made == Dialled(numStreams, f, nextConn)
           undone == IF f < numStreams THEN ClosedOnFailure(made, f)
                     ELSE << >>
       IN /\ connList' = made
          /\ conns' = Len(made)
          /\ openConns' = ((openConns \ Range(old)) \cup Range(Live(made)))
                              \ Range(undone)
          /\ nextConn' = nextConn + f
          /\ poolRes' = << [op |-> "Connect",
                            err |-> IF f < numStreams THEN << f >> ELSE Nil,
                            before |-> connList,
                            dialled |-> Range(Live(made)),
                            attempted |-> old \o undone,
                            failed |-> {},
                            creds |-> DialCreds(useTLS)] >>
    /\ UNCHANGED << http, clientVars, ctxCancelled, started, wgCount, eventChan,
                    eventClosed, doneClosed, stats, err, pipeVars, calls,
                    flushRes, flushSeq, histVars, crash >>

\* -------------------------------------------------------- GRPCClient.Close
\* The connections Close calls conn.Close() on, in order, when the closes of
\* the handles in F return an error: every non-nil entry.
CloseAttemptsShortCircuit(list, F) ==
    LET live == Live(list)
        stop == { i \in 1 .. Len(live) : live[i] \in F }
    IN IF stop = {} THEN live
       ELSE SubSeq(live, 1, CHOOSE i \in stop : \A k \in stop : i <= k)

CloseAttempts(list, F) == Live(list)

\* lastErr after the loop: the error of the last attempted connection whose
\* close failed (an error is named by its connection), nil when none failed.
CloseErrorFirst(att, F) ==
    LET bad == SelectSeq(att, LAMBDA c : c \in F)
    IN IF bad = << >> THEN Nil ELSE << bad[1] >>

CloseError(att, F) ==
    LET bad == SelectSeq(att, LAMBDA c : c \in F)
    IN IF bad = << >> THEN Nil ELSE << bad[Len(bad)] >>

\* Close called on the pool itself, under c.mu from entry to return; F is the
\* set of connections whose conn.Close() returns an error.
GRPCClose(F) ==
    /\ Running
    /\ LET att == CloseAttempts(connList, F)
       IN /\ openConns' = openConns \ Range(att)
          /\ poolRes' = << [op |-> "Close",
                            err |-> CloseError(att, F),
                            before |-> connList,
                            dialled |-> {},
                            attempted |-> att,
                            failed |-> F,
                            creds |-> "none"] >>
    /\ connList' = << >>
    /\ conns' = 0
    /\ UNCHANGED << http, clientVars, nextConn, ctxCancelled, started, wgCount,
                    eventChan, eventClosed, doneClosed, stats, err, pipeVars,
                    calls, flushRes, flushSeq, histVars, crash >>

NextPool ==
    \/ \E f \in 0 .. numStreams : Connect(f)
    \/ \E F \in SUBSET Range(Live(connList)) : GRPCClose(F)

SpecPool == InitPool /\ [][NextPool]_vars

\* ------------------------------------------------------------------ claims
\* The events the distributor has read and already forwarded.
Forwarded ==
    IF held = Nil THEN distRead ELSE SubSeq(distRead, 1, Len(distRead) - 1)

\* In how many places of the per-stream channels' histories event e was put.
Placements(e) ==
    SumOver([w \in Streams |->
                Cardinality({i \in 1 .. Len(assigned[w]) : assigned[w][i] = e})],
            Streams)

PlacedTotal == SumOver([w \in Streams |-> Len(assigned[w])], Streams)
ConsumedTotal == SumOver([w \in Streams |-> wcnt[w].sent], Streams)

\* C1: with K >= 2 workers, every event runMultiStream has read from the
\* inbound channel and forwarded was put in exactly one per-stream channel,
\* exactly once; the event it still holds is in none; the per-stream channels
\* received as many events as were forwarded, each worker's channel holds
\* exactly the events put in it and not yet consumed, and once the pipeline
\* has finished the workers have received all N events read.
C1_NoDuplicationNoLoss ==
    mNumConns >= 2 =>
        /\ \A n \in 1 .. Len(Forwarded) : Placements(Forwarded[n]) = 1
        /\ held # Nil => Placements(held[1]) = 0
        /\ PlacedTotal = Len(Forwarded)
        /\ \A w \in Streams :
              streamChans[w] =
                  SubSeq(assigned[w], wcnt[w].sent + 1, Len(assigned[w]))
        /\ ppc = "done" => ConsumedTotal = Len(distRead)

C1_Witness ==
    /\ mNumConns = 3
    /\ ppc = "done"
    /\ Len(distRead) = 4
    /\ ConsumedTotal = 4

\* C2: the n-th event read from the inbound channel (from 0) is the
\* (n div K)-th event put in the channel of worker n mod K, so each worker
\* gets its events in submission order, and after M*K forwarded events every
\* worker has been given exactly M.
C2_RoundRobin ==
    mNumConns >= 1 =>
        /\ \A n \in 0 .. (Len(Forwarded) - 1) :
              LET w == n % mNumConns
                  i == (n \div mNumConns) + 1 IN
              /\ Len(assigned[w]) >= i
              /\ assigned[w][i] = distRead[n + 1]
        /\ Len(Forwarded) % mNumConns = 0 =>
              \A w \in Workers :
                  Len(assigned[w]) = Len(Forwarded) \div mNumConns

C2_Witness ==
    /\ mNumConns = 2
    /\ held = Nil
    /\ distRead = << 0, 1, 2, 3 >>
    /\ assigned[0] = << 0, 2 >>
    /\ assigned[1] = << 1, 3 >>

\* Number of submitted events that were put in the inbound channel.
Accepted == nextId - Cardinality(rejected)

\* A Flush has returned what the background goroutine recorded.
FlushReturned == flushRes # Nil /\ flushRes[1].err # ErrNotStarted

\* C3: on a session whose Start call had returned when Flush was called, a
\* Flush that returns no error returns statistics with TotalSent and
\* TotalSuccess equal to the number N of accepted events, TotalFailed = 0 and
\* a drop count of 0, for every number of streams.
C3_EndToEndAccounting ==
    (FlushReturned /\ flushSeq /\ flushRes[1].err = NoErr) =>
        /\ flushRes[1].stats # Nil
        /\ LET st == flushRes[1].stats[1] IN
           /\ st.TotalSent = Accepted
           /\ st.TotalSuccess = Accepted
           /\ st.TotalFailed = 0
           /\ rejected = {} => TotalDropped(st) = 0
           /\ st.ActiveStreams = numStreams

C3_Witness ==
    /\ FlushReturned
    /\ flushSeq
    /\ ~usedSend
    /\ numStreams = 2
    /\ flushRes[1].stats # Nil
    /\ flushRes[1].stats[1].TotalSent = MaxEvents
    /\ flushRes[1].stats[1].TotalSuccess = MaxEvents
    /\ flushRes[1].stats[1].TotalFailed = 0
    /\ assigned[0] = << 0, 2 >>

\* C4: in a session whose events were all submitted through SendBlocking, no
\* submission returns without its event in the inbound channel, and the
\* statistics a Flush returns count every submitted event as sent.
C4_BlockingNeverDrops ==
    ~usedSend =>
        /\ rejected = {}
        /\ (FlushReturned /\ flushRes[1].stats # Nil) =>
              /\ flushRes[1].stats[1].TotalSent = nextId
              /\ TotalDropped(flushRes[1].stats[1]) = 0

C4_Witness ==
    /\ ~usedSend
    /\ nextId > EventChanCap
    /\ FlushReturned
    /\ flushRes[1].stats # Nil
    /\ flushRes[1].stats[1].TotalSent = nextId

\* C5: the drop count of the statistics Flush returns is the number of
\* rejected Send calls: at least the Send calls refused on a full buffer, at
\* most all Send calls that returned false.
C5_DropAccounting ==
    (FlushReturned /\ flushRes[1].stats # Nil) =>
        /\ TotalDropped(flushRes[1].stats[1]) >= Cardinality(dropped)
        /\ TotalDropped(flushRes[1].stats[1]) <= Cardinality(rejected)

\* Events in flight between the producers and the workers' counters.
InChannels ==
    Len(eventChan) + (IF held = Nil THEN 0 ELSE 1)
        + SumOver([w \in Streams |-> Len(streamChans[w])], Streams)

\* C6: an event whose Send returned false is in no channel and was never
\* read by the distributor nor put in a per-stream channel; the events in the
\* channels plus the events the workers counted are exactly the accepted
\* ones, so a rejected Send neither changes the queue nor adds to TotalSent.
C6_RejectedNotDelivered ==
    /\ \A e \in rejected :
          /\ e \notin Range(eventChan)
          /\ held # << e >>
          /\ e \notin Range(distRead)
          /\ \A w \in Streams :
                e \notin Range(assigned[w]) /\ e \notin Range(streamChans[w])
    /\ InChannels + ConsumedTotal = Accepted
    /\ stats # Nil => stats[1].TotalSent = Accepted - InChannels

C6_Witness ==
    /\ dropped # {}
    /\ Len(eventChan) = EventChanCap
    /\ dropped \subseteq rejected
    /\ ConsumedTotal >= 1

\* C7: the statistics StreamEvents returns, and so the ones Flush returns,
\* satisfy TotalSuccess + TotalFailed = TotalSent (the stream worker counts
\* every event it sends as acknowledged with success).
C7_Conservation ==
    /\ stats # Nil =>
          stats[1].TotalSuccess + stats[1].TotalFailed = stats[1].TotalSent
    /\ (flushRes # Nil /\ flushRes[1].stats # Nil) =>
          LET st == flushRes[1].stats[1] IN
          st.TotalSuccess + st.TotalFailed = st.TotalSent

C7_Witness ==
    /\ FlushReturned
    /\ flushRes[1].stats # Nil
    /\ flushRes[1].stats[1].ActiveStreams = 3
    /\ flushRes[1].stats[1].TotalSent = 4
    /\ flushRes[1].stats[1].TotalSuccess + flushRes[1].stats[1].TotalFailed = 4

\* C8: at most one background goroutine is ever launched, and a Start call
\* on a session that is already started changes nothing of the session, the
\* pipeline or the calls in flight.
C8_IdempotentStart ==
    /\ [](launched <= 1)
    /\ [][(Start /\ started) =>
            UNCHANGED << sessionVars, pipeVars, calls, flushRes, launched >>]_vars

C8_Witness ==
    /\ restarted
    /\ launched = 1
    /\ ppc = "done"
    /\ stats # Nil

\* C9: Flush on a session that was never started returns the not-started
\* error and no statistics, and changes neither the inbound channel (it stays
\* open), nor the connections, nor anything else of the session; no channel
\* is ever closed on a session that is not started.
C9_FlushRequiresStart ==
    /\ [](~started => ~eventClosed /\ ~doneClosed)
    /\ [][(Flush /\ ~started) =>
            /\ flushRes' = << [stats |-> Nil, err |-> ErrNotStarted] >>
            /\ UNCHANGED << sessionVars, pipeVars, calls, histVars, crash >>]_vars

C9_Witness ==
    /\ ~started
    /\ flushRes = << [stats |-> Nil, err |-> ErrNotStarted] >>
    /\ ~eventClosed
    /\ conns = numStreams
    /\ eventChan # << >>

\* C10: once a Flush has returned the session's result, a further Flush call
\* does not close the inbound channel a second time (it does not panic with
\* "close of closed channel").
C10_SecondFlushGuarded ==
    ~(/\ FlushReturned
      /\ flushSeq
      /\ flushRes[1].stats # Nil
      /\ doneClosed
      /\ crash = "Flush: close of closed channel")

\* C11: SendBlocking on a session that is not started starts it: once an
\* event has been submitted and only SendBlocking was used, the session is
\* started.
C11_BlockingAutoStarts ==
    (nextId > 0 /\ ~usedSend) => started

\* C12: Send never suspends (on an open channel a call can always complete),
\* and a call that returns does so with true and the event appended to the
\* inbound channel exactly when the session is started and the buffer has
\* room; otherwise it returns false and leaves the channel as it was.
C12_SendFailsFast ==
    /\ []((Running /\ nextId < MaxEvents) => ENABLED Send)
    /\ [][(Send /\ crash' = "none") =>
            LET ok == nextId \notin rejected' IN
            /\ ok <=> (started /\ Len(eventChan) < EventChanCap)
            /\ ok => eventChan' = Append(eventChan, nextId)
            /\ ~ok => eventChan' = eventChan
            /\ Len(eventChan') <= EventChanCap]_vars

C12_Witness ==
    /\ usedSend
    /\ started
    /\ eventChan = << 1, 2 >>
    /\ rejected = {0, 3}
    /\ dropped = {3}

\* C13: Send on a session that is not started returns false and changes
\* neither the inbound channel, nor the workers' and the pipeline's tallies,
\* nor the recorded statistics, nor the set of counted drops, which stays
\* empty as long as the session is not started.
C13_SendUnstartedFrame ==
    /\ [](~started => dropped = {})
    /\ [][(Send /\ ~started) =>
            /\ nextId \in rejected'
            /\ UNCHANGED << sessionVars, pipeVars, dropped, calls, flushRes,
                            crash >>]_vars

C13_Witness ==
    /\ ~started
    /\ usedSend
    /\ rejected = {0, 1}
    /\ dropped = {}
    /\ eventChan = << >>
    /\ stats = Nil

\* C14: a Close call that found the session started and its pipeline not
\* complete tears the pool down only after the pipeline has completed: while
\* such a call is past its wait and at the pool's Close, or has returned with
\* the pool closed, the background goroutine has run to its end.
C14_CloseOrdering ==
    calls["closePoolRun"] > 0 => ppc = "done"

\* C15: the session's phase (0 not started, 1 started with the inbound
\* channel open, 2 inbound channel closed by Flush or Close) never decreases,
\* at most one pipeline is ever launched, and a Start call made after the
\* inbound channel was closed changes nothing of the session, the pipeline
\* or the calls in flight and launches nothing.
Phase == IF ~started THEN 0 ELSE IF ~eventClosed THEN 1 ELSE 2

C15_SingleUse ==
    /\ [][Phase' >= Phase]_vars
    /\ [](launched <= 1 /\ (eventClosed => started))
    /\ [][(Start /\ Phase = 2) =>
            UNCHANGED << sessionVars, pipeVars, calls, flushRes, launched >>]_vars

C15_Witness ==
    /\ lateStart = "yes"
    /\ Phase = 2
    /\ FlushReturned
    /\ launched = 1
    /\ ppc = "done"
    /\ calls = [p \in Positions |-> 0]

\* ------------------------------------------- GRPCClient.StreamEventsSlice
\* The pool used on its own: NewGRPCClient, then Connect, Close and one
\* StreamEventsSlice in any order and overlap.
InitStream ==
    /\ InitClient("NewGRPCClient")
    /\ InitIdle
    /\ conns = 0
    /\ connList = << >>
    /\ openConns = {}
    /\ nextConn = 0
    /\ poolRes = Nil
    /\ lateStart = "off"
    /\ sendErrs = [w \in Streams |-> 0]
    /\ ctxCancelled = FALSE

\* StreamEventsSlice up to its call of StreamEvents: a channel holding the n
\* events of the slice, closed.
StreamEventsSlice(n) ==
    /\ Running
    /\ ppc = "none"
    /\ eventChan' = [i \in 1 .. n |-> i - 1]
    /\ eventClosed' = TRUE
    /\ nextId' = n
    /\ ppc' = "streamEvents"
    /\ UNCHANGED << http, cfgVars, conns, started, wgCount, doneClosed, stats, err,
                    numConns, mNumConns, idx, held, streamChans, streamClosed,
                    wpc, wcnt, totals, distRead, assigned, workerHist, calls,
                    flushRes, flushSeq, rejected, dropped, usedSend, launched,
                    restarted, lateStart, crash >>

NextStream ==
    \/ \E f \in 0 .. numStreams : Connect(f)
    \/ \E F \in SUBSET Range(Live(connList)) : GRPCClose(F)
    \/ \E n \in 0 .. MaxEvents : StreamEventsSlice(n)
    \/ PipeNext

SpecStream == InitStream /\ [][NextStream]_vars

\* ------------------------------------------------------------ construction
\* The constructor calls made: the constructor and, in any order, at most one
\* option of each kind.
OptionKinds == {"WithGRPCEndpoint", "WithTLS", "WithNumStreams"}
KindOrders ==
    { o \in UNION { [1 .. k -> OptionKinds] : k \in 0 .. Cardinality(OptionKinds) } :
        \A i, j \in 1 .. Len(o) : i # j => o[i] # o[j] }

MakeOption(k, e, b, n) ==
    IF k = "WithGRPCEndpoint" THEN WithGRPCEndpoint(e)
    ELSE IF k = "WithTLS" THEN WithTLS(b)
    ELSE WithNumStreams(n)

CtorCalls ==
    { [kind |-> k, opts |-> [i \in 1 .. Len(o) |-> MakeOption(o[i], e, b, n)],
       built |-> FALSE] :
        k \in {"NewGRPCClient", "NewMultiStreamClient"}, o \in KindOrders,
        e \in Endpoints, b \in BOOLEAN, n \in (-1) .. MaxStreams }

\* Before the constructor call: the fields hold their zero values.
InitConfig ==
    /\ ctor \in CtorCalls
    /\ endpoint = << >>
    /\ useTLS = FALSE
    /\ numStreams = 0
    /\ InitIdle
    /\ conns = 0
    /\ connList = << >>
    /\ openConns = {}
    /\ nextConn = 0
    /\ poolRes = Nil
    /\ lateStart = "off"
    /\ sendErrs = Nil
    /\ ctxCancelled = FALSE

\* NewGRPCClient, called directly or as the first statement of
\* NewMultiStreamClient.
NewClient ==
    /\ Running
    /\ ~ctor.built
    /\ ctor' = [ctor EXCEPT !.built = TRUE]
    /\ endpoint' = Construct(ctor).endpoint
    /\ useTLS' = Construct(ctor).useTLS
    /\ numStreams' = Construct(ctor).numStreams
    /\ UNCHANGED << http, poolVars, ctxCancelled, sessionVars, pipeVars, calls,
                    flushRes, flushSeq, histVars, crash >>

\* The first Connect on the new client: the caller's on a GRPCClient, the
\* constructor's own in NewMultiStreamClient.
NextConfig ==
    \/ NewClient
    \/ \E f \in 0 .. numStreams :
          ctor.built /\ poolRes = Nil /\ Connect(f)

SpecConfig == InitConfig /\ [][NextConfig]_vars

\* The latest call on the pool was Connect, or Close.
AfterConnect == poolRes # Nil /\ poolRes[1].op = "Connect"
AfterClose == poolRes # Nil /\ poolRes[1].op = "Close"

\* C16: when Connect returns an error, the error names the index i of the
\* dial that failed, exactly the connections of the indices 0 .. i-1 were
\* dialled by the call, each of them was closed by the call, and no
\* connection at all is open when it returns.
C16_ConnectNoLeak ==
    (AfterConnect /\ poolRes[1].err # Nil) =>
        LET r == poolRes[1]
            i == r.err[1]
        IN /\ i \in 0 .. (numStreams - 1)
           /\ Cardinality(r.dialled) = i
           /\ r.dialled = { connList[j] : j \in 1 .. i }
           /\ r.dialled \subseteq Range(r.attempted)
           /\ r.dialled \cap openConns = {}
           /\ openConns = {}

C16_Witness ==
    /\ AfterConnect
    /\ numStreams = 3
    /\ poolRes[1].err = << 2 >>
    /\ poolRes[1].before = << 1, 2, 3 >>
    /\ poolRes[1].dialled = {4, 5}
    /\ openConns = {}

\* C17: when Connect returns no error, every connection the pool held before
\* the call was closed by it, and the open connections are exactly the
\* numStreams connections this call dialled, which are the pool's entries.
C17_ConnectRepeatable ==
    (AfterConnect /\ poolRes[1].err = Nil) =>
        LET r == poolRes[1]
        IN /\ Range(Live(r.before)) \subseteq Range(r.attempted)
           /\ Range(r.before) \cap openConns = {}
           /\ openConns = r.dialled
           /\ Cardinality(openConns) = numStreams
           /\ Range(connList) = openConns
           /\ Len(connList) = numStreams

C17_Witness ==
    /\ AfterConnect
    /\ numStreams = 2
    /\ poolRes[1].err = Nil
    /\ poolRes[1].before = << 3, 4 >>
    /\ connList = << 5, 6 >>
    /\ openConns = {5, 6}

\* C18: Close calls conn.Close() on every non-nil connection of the pool, in
\* pool order, whichever of these calls fail, and when it returns the pool
\* holds no connection and none of its connections is open.
C18_CloseAttemptsAll ==
    AfterClose =>
        LET r == poolRes[1]
        IN /\ r.attempted = Live(r.before)
           /\ connList = << >>
           /\ conns = 0
           /\ openConns = {}

C18_Witness ==
    /\ AfterClose
    /\ poolRes[1].before = << 1, 2, 3 >>
    /\ poolRes[1].failed = {1}
    /\ poolRes[1].attempted = << 1, 2, 3 >>
    /\ connList = << >>

\* The first and the last connection, in pool order, whose close failed.
FirstFailed(r) == SelectSeq(r.attempted, LAMBDA c : c \in r.failed)[1]
LastFailed(r) ==
    LET bad == SelectSeq(r.attempted, LAMBDA c : c \in r.failed)
    IN bad[Len(bad)]

\* C19: Close returns no error exactly when every close succeeded, and
\* otherwise the error of the first connection, in pool order, whose close
\* failed.
C19_CloseFirstError ==
    AfterClose =>
        LET r == poolRes[1]
        IN /\ r.err = Nil <=> r.failed = {}
           /\ r.failed # {} => r.err = << FirstFailed(r) >>

\* C19, amended: Close returns no error exactly when every close succeeded,
\* and otherwise the error of the last connection, in pool order, whose
\* close failed.
C19_CloseLastError ==
    AfterClose =>
        LET r == poolRes[1]
        IN /\ r.err = Nil <=> r.failed = {}
           /\ r.failed # {} => r.err = << LastFailed(r) >>

C19_Witness ==
    /\ AfterClose
    /\ poolRes[1].before = << 1, 2, 3 >>
    /\ poolRes[1].failed = {1, 2}
    /\ poolRes[1].err = << 2 >>

\* C20: once the context is cancelled, a launched pipeline that has not
\* returned can always take a further step towards its return, whether or
\* not the inbound channel is closed: it is never left waiting on a channel.
C20_CancelUnblocks ==
    (Running /\ ctxCancelled /\ launched > 0) =>
        (ppc = "done" \/ ENABLED PipeNext)

\* The client has been constructed.
Constructed == ctor.built

\* The endpoint's port, the text after its last colon, is 443.
SecurePort(e) ==
    \E i \in 1 .. Len(e) :
        e[i] = ":" /\ SubSeq(e, i + 1, Len(e)) = << "4", "4", "3" >>

\* The last WithTLS option of a constructor call, if any, disables TLS.
TLSDisabled(opts) ==
    \E i \in 1 .. Len(opts) :
        /\ opts[i].opt = "WithTLS"
        /\ ~opts[i].enabled
        /\ \A j \in (i + 1) .. Len(opts) : opts[j].opt # "WithTLS"

RECURSIVE Requested(_, _)
Requested(opts, default) ==
    IF opts = << >> THEN default
    ELSE LET o == opts[Len(opts)] IN
         IF o.opt = "WithNumStreams" /\ o.n > 0 THEN o.n
         ELSE Requested(SubSeq(opts, 1, Len(opts) - 1), default)

DefaultStreams(kind) == IF kind = "NewMultiStreamClient" THEN 4 ELSE 1

\* C22: a constructed client's numStreams is what its constructor call asks
\* for and at least 1, and after a successful Connect the pool holds exactly
\* that many connections, all of them open.
C22_PoolSize ==
    Constructed =>
        /\ numStreams = Requested(ctor.opts, DefaultStreams(ctor.kind))
        /\ numStreams >= 1
        /\ (AfterConnect /\ poolRes[1].err = Nil) =>
              /\ Len(connList) = numStreams
              /\ conns = numStreams
              /\ Cardinality(openConns) = numStreams
              /\ Range(connList) = openConns

C22_Witness ==
    /\ ctor.kind = "NewMultiStreamClient"
    /\ \E i \in 1 .. Len(ctor.opts) :
          ctor.opts[i].opt = "WithNumStreams" /\ ctor.opts[i].n = -1
    /\ AfterConnect
    /\ poolRes[1].err = Nil
    /\ numStreams = 4
    /\ openConns = 1 .. 4

\* C23: StreamEvents on a pool that holds no connection, because Connect was
\* never called or because Close emptied it, returns the not-connected error
\* and no statistics, takes no event from the inbound channel and starts no
\* worker; and a call that has returned that error left all events in the
\* channel and every worker unstarted.
C23_StreamNeedsConnection ==
    /\ [][(StreamEvents /\ connList = << >>) =>
            /\ stats' = Nil
            /\ err' = ErrNotConnected
            /\ ppc' = "done"
            /\ UNCHANGED << eventChan, streamChans, wpc, wcnt, totals,
                            distRead, assigned, held >>]_vars
    /\ []((ppc = "done" /\ err = ErrNotConnected) =>
            /\ stats = Nil
            /\ Len(eventChan) = nextId
            /\ \A w \in Streams : wpc[w] = "none" /\ wcnt[w] = ZeroCount)

C23_Witness ==
    /\ poolRes = Nil
    /\ connList = << >>
    /\ ppc = "done"
    /\ err = ErrNotConnected
    /\ stats = Nil
    /\ Len(eventChan) = MaxEvents

\* C24: the per-stream channels are closed only when the inbound channel is
\* closed and empty and the distributor holds no event; and once the
\* distributor runs on a closed inbound channel, the pipeline goes on to
\* return (every worker has exited by then) unless the process panics.
C24_CloseAfterDrain ==
    /\ [](streamClosed =>
            (eventClosed /\ eventChan = << >> /\ held = Nil
               /\ Len(distRead) = Accepted))
    /\ ((ppc \in {"dist", "join"} /\ eventClosed) ~>
            (~Running \/ (ppc = "done" /\ \A w \in Workers : wpc[w] = "done")))

C24_Witness ==
    /\ numStreams = 3
    /\ streamClosed
    /\ ppc = "join"
    /\ Len(distRead) = MaxEvents
    /\ wpc[0] = "done"
    /\ wpc[1] = "run"
    /\ streamChans[1] # << >>

\* The sum of the counters the workers of W returned.
SumCounters(W) ==
    [sent    |-> SumOver([w \in Streams |-> wcnt[w].sent], W),
     success |-> SumOver([w \in Streams |-> wcnt[w].success], W),
     failed  |-> SumOver([w \in Streams |-> wcnt[w].failed], W)]

\* The workers of runMultiStream that have called wg.Done().
Finished == {w \in Workers : wpc[w] = "done"}

\* C25: runMultiStream returns only after every one of its K workers has
\* finished; the totals hold at every moment the sum of the counters of the
\* workers that have finished, a finished worker has nothing left to consume,
\* and the statistics returned are the sum of the counters of all K workers.
C25_StructuredJoin ==
    mNumConns >= 1 =>
        /\ totals = SumCounters(Finished)
        /\ \A w \in Finished : streamChans[w] = << >> /\ streamClosed
        /\ ppc = "done" =>
              /\ Finished = Workers
              /\ stats # Nil
              /\ stats[1] = MakeStats(SumCounters(Workers), mNumConns)

C25_Witness ==
    /\ mNumConns = 3
    /\ ppc = "done"
    /\ \A w \in Workers : wpc[w] = "done" /\ wcnt[w].sent >= 1
    /\ stats # Nil
    /\ stats[1].TotalSent = MaxEvents
    /\ stats[1].TotalSuccess = MaxEvents

\* runSingleStream as a function of the content of the channel it ranges over.
RECURSIVE RunSingleStream(_)
RunSingleStream(q) ==
    IF q = << >> THEN ZeroCount
    ELSE CountEvent(RunSingleStream(Receive(q).rest))

\* The distributor of runMultiStream as a function: the per-stream channels
\* after the events of q, the first of which is the idx-th, were forwarded.
RECURSIVE Distribute(_, _, _, _)
Distribute(q, i, K, chs) ==
    IF q = << >> THEN chs
    ELSE Distribute(Receive(q).rest, i + 1, K,
                    Forward(chs, StreamIndex(i, K), Receive(q).event))

\* The totals of runMultiStream after the workers 0 .. k-1 added theirs.
RECURSIVE AddWorkers(_, _)
AddWorkers(chs, k) ==
    IF k = 0 THEN ZeroCount
    ELSE AddTotals(AddWorkers(chs, k - 1), RunSingleStream(chs[k - 1]))

\* runMultiStream over K connections as a function of the inbound events.
RunMultiStream(q, K) ==
    AddWorkers(Distribute(q, 0, K, [w \in Streams |-> << >>]), K)

\* C26: with exactly one connection StreamEvents runs the single worker on
\* the inbound channel itself: no distributor runs, no per-stream channel
\* receives an event and no worker goroutine starts; the worker consumes every
\* accepted event, and the statistics returned are the ones runMultiStream
\* computes for the same input over K = 1 connection.
C26_SingleBypass ==
    (ppc = "done" /\ stats # Nil /\ numConns = 1) =>
        /\ mNumConns = 0
        /\ distRead = << >>
        /\ \A w \in Streams :
              assigned[w] = << >> /\ streamChans[w] = << >> /\ wpc[w] = "none"
        /\ Len(consumed[0]) = Accepted
        /\ stats[1] = MakeStats(RunSingleStream(consumed[0]), 1)
        /\ stats[1] = MakeStats(RunMultiStream(consumed[0], 1), 1)

C26_Witness ==
    /\ ppc = "done"
    /\ numConns = 1
    /\ stats # Nil
    /\ consumed[0] = << 0, 1, 2, 3 >>
    /\ stats[1].TotalSent = MaxEvents
    /\ RunMultiStream(consumed[0], 1).sent = MaxEvents

\* Events are numbered in submission order.
InSubmissionOrder(q) == \A i \in 1 .. (Len(q) - 1) : q[i] < q[i + 1]

IsPrefix(p, q) == Len(p) <= Len(q) /\ p = SubSeq(q, 1, Len(p))

\* C27: the events a worker has consumed are, in the same order, the first
\* ones the distributor put in its channel, and the events put in one channel
\* are in submission order; in single stream mode the worker consumes the
\* inbound channel in submission order. (Nothing relates the moments two
\* different workers consume: the witness is a state where worker 1 has
\* consumed event 1 while event 0 is still queued for worker 0.)
C27_PerWorkerOrder ==
    /\ InSubmissionOrder(distRead)
    /\ \A w \in Streams :
          /\ InSubmissionOrder(assigned[w])
          /\ InSubmissionOrder(consumed[w])
          /\ mNumConns >= 1 => IsPrefix(consumed[w], assigned[w])
          /\ Len(consumed[w]) = wcnt[w].sent

C27_Witness ==
    /\ mNumConns = 2
    /\ assigned[0] = << 0, 2 >>
    /\ streamChans[0] = << 0, 2 >>
    /\ consumed[0] = << >>
    /\ consumed[1] = << 1, 3 >>

\* runSingleStream of worker w has returned its three counters.
Returned(w) ==
    IF mNumConns >= 1 THEN w \in Workers /\ wpc[w] = "done"
    ELSE w = 0 /\ ppc = "done" /\ stats # Nil

\* The worker w has consumed every event put in the channel it ranges over.
Drained(w) ==
    IF mNumConns >= 1 THEN consumed[w] = assigned[w] /\ streamChans[w] = << >>
    ELSE Len(consumed[w]) = nextId /\ eventChan = << >>

\* C28: a worker that has returned, having taken sent events of which
\* send_errors could not be sent (its connection was nil or closed), and
\* having received no acknowledgement (runSingleStream reads none), returns
\* (sent, sent - send_errors, send_errors).
C28_Reconciliation ==
    \A w \in Streams :
        Returned(w) =>
            LET sent == Len(consumed[w])
                send_errors == sendErrs[w] IN
            wcnt[w] = [sent |-> sent, success |-> sent - send_errors,
                       failed |-> send_errors]

\* C29: a worker that was given a connection on which no stream can be
\* opened (nil or closed when the worker started) has, when it returns,
\* drained its channel and counted every event it read as sent and as failed,
\* none as succeeded.
C29_OpenFailureDrains ==
    \A w \in openFailed :
        Returned(w) =>
            /\ Drained(w)
            /\ wcnt[w].sent = Len(consumed[w])
            /\ wcnt[w].success = 0
            /\ wcnt[w].failed = wcnt[w].sent

\* C30: a worker one of whose sends failed has, when it returns, consumed
\* every event of its channel and counted each as sent; nothing was raised
\* (no panic, no error from StreamEvents), and the failed sends are among the
\* failures its counters report.
C30_SendFailureCounted ==
    \A w \in Streams :
        (Returned(w) /\ sendErrs[w] > 0) =>
            /\ Drained(w)
            /\ wcnt[w].sent = Len(consumed[w])
            /\ Running
            /\ err = NoErr
            /\ wcnt[w].failed >= sendErrs[w]

\* C31: a Flush called on a session whose Start call has returned, once it
\* has closed the inbound channel, eventually returns; and when it has returned
\* the background goroutine has run to its end, every accepted event has been
\* consumed by a worker and none is left in a channel, for every number of
\* streams and of queued events.
C31_FlushAfterPipeline ==
    /\ []((FlushReturned /\ flushSeq) =>
            (ppc = "done" /\ InChannels = 0 /\ ConsumedTotal = Accepted))
    /\ (calls["flushWait"] > 0) ~> (~Running \/ FlushReturned)

C31_Witness ==
    /\ FlushReturned
    /\ flushSeq
    /\ numStreams = 3
    /\ ppc = "done"
    /\ Accepted = MaxEvents
    /\ ConsumedTotal = MaxEvents
    /\ \A w \in Workers : wcnt[w].sent >= 1

\* The inbound buffer of an open channel is full: a SendBlocking is suspended.
BufferFull == ~eventClosed /\ Len(eventChan) = EventChanCap

\* C32: on a started session whose inbound channel is open, a SendBlocking
\* call completes only from a buffer that has room (on a full buffer the call
\* stays suspended) and only by appending its event, never by giving it up;
\* and a full buffer eventually has room again, so the suspended call can
\* complete, unless the channel is closed meanwhile.
C32_Backpressure ==
    /\ [][(SendBlocking /\ ~eventClosed) =>
            /\ ~BufferFull
            /\ eventChan' = Append(eventChan, nextId)
            /\ nextId \notin rejected'
            /\ Len(eventChan') <= EventChanCap]_vars
    /\ (started /\ BufferFull) ~> (~Running \/ ~BufferFull)

C32_Witness ==
    /\ started
    /\ BufferFull
    /\ ~usedSend
    /\ nextId = MaxEvents
    /\ rejected = {}
    /\ eventChan = << 2, 3 >>

\* C33: no Flush or Close call closes the inbound channel when it is
\* already closed: no call panics with "close of closed channel".
C33_ClosedOnce ==
    crash \notin {"Flush: close of closed channel",
                  "Close: close of closed channel"}

\* C34: once the inbound channel is closed no Send or SendBlocking call
\* writes to it: no call panics with "send on closed channel".
C34_SubmitAfterFinalize ==
    crash \notin {"Send: send on closed channel",
                  "SendBlocking: send on closed channel"}

\* C35: a Flush that passed its started check and has returned has returned
\* either statistics or an error, and not neither nor both.
C35_FlushDefinite ==
    FlushReturned =>
        (flushRes[1].stats # Nil) # (flushRes[1].err # NoErr)

\* C36: StreamEvents never indexes a missing connection nor takes a worker
\* index modulo zero; the number of connections runMultiStream distributes
\* over is at least 1 and is the number StreamEvents read, which is the
\* ActiveStreams it reports.
C36_NeverEmptyList ==
    /\ crash \notin {"index out of range", "integer divide by zero"}
    /\ ppc \in {"dist", "join"} => (mNumConns >= 1 /\ mNumConns = numConns)
    /\ (ppc = "done" /\ stats # Nil /\ ~SingleMode(numConns)) =>
          (mNumConns >= 1 /\ stats[1].ActiveStreams = mNumConns)

\* C37: when the latest call on the pool is a Connect that returned an
\* error, the pool holds no connection (so StreamEvents takes its
\* not-connected return); and the pool never holds a handle that is already
\* closed, so Close closes nothing a second time.
C37_FailedConnectUnconnected ==
    /\ (AfterConnect /\ poolRes[1].err # Nil) =>
          (connList = << >> /\ conns = 0)
    /\ Range(Live(connList)) \subseteq openConns

\* --------------------------------------------------------------- HTTPClient
\* Everything but the HTTP client.
grpcVars == << cfgVars, sessionVars, pipeVars, calls, flushRes, flushSeq,
               histVars, crash >>

\* maxRetries as NewHTTPClient sets it before the options.
DefaultRetries == 3
\* The values given to WithRetries, which stores any int.
RetryValues == -1 .. MaxRetries

\* The option lists given to NewHTTPClient: none, or WithRetries(n).
HTTPOptions == { << >> } \cup { << n >> : n \in RetryValues }

\* WithRetries(n) applied to the client c.
WithRetries(c, n) == [c EXCEPT !.maxRetries = n]

\* The status codes a response carries.
Statuses == {200, 201, 202, 204, 400, 401, 403, 404, 418, 422, 429, 500, 503}
ParsedStatuses == {200, 201, 202}

\* What one c.httpClient.Do and the reading of its response can meet: a
\* transport error, an error of io.ReadAll, or a response with its status and
\* whether its body parses as the result.
Outcomes ==
    { [fail |-> f, status |-> 0, parses |-> TRUE] : f \in {"transport", "read"} }
        \cup { [fail |-> "none", status |-> st, parses |-> TRUE] :
                   st \in Statuses }
        \cup { [fail |-> "none", status |-> st, parses |-> FALSE] :
                   st \in ParsedStatuses }

\* handleResponse: the type of the error returned, "nil" for none.
HandleResponse(status, parses) ==
    CASE status \in ParsedStatuses ->
             IF parses THEN "nil" ELSE "NetworkError"
      [] status = 204 -> "nil"
      [] status = 401 -> "AuthenticationError"
      [] status = 403 -> "AuthorizationError"
      [] status = 404 -> "NotFoundError"
      [] status \in {422, 400} -> "ValidationError"
      [] status = 429 -> "RateLimitError"
      [] OTHER -> IF status >= 500 THEN "ServerError" ELSE "APIError"

\* An error value: its type and the attempt (from 0) that produced it; the
\* error made after the loop carries no attempt.
ErrorAt(kind, a) == [kind |-> kind, at |-> a]
NoAttempt == 0 - 1

\* err.(*RateLimitError) with attempt < c.maxRetries
RetryAnyError(e, a, max) == a < max
RetryRateLimit(e, a, max) == e = "RateLimitError" /\ a < max

\* NewHTTPClient(apiKey, opts...)
NewHTTPClient(opts) ==
    /\ Running
    /\ http.pc = "none"
    /\ http' = [(IF opts = << >>
                 THEN [http EXCEPT !.maxRetries = DefaultRetries]
                 ELSE WithRetries([http EXCEPT !.maxRetries = DefaultRetries],
                                  opts[1]))
                   EXCEPT !.pc = "ready"]
    /\ UNCHANGED grpcVars

\* executeRequest is entered: var lastErr error; attempt := 0.
ExecuteRequest ==
    /\ Running
    /\ http.pc = "ready"
    /\ http' = [http EXCEPT !.pc = "loop", !.attempt = 0, !.lastErr = Nil]
    /\ UNCHANGED grpcVars

\* The request's context is cancelled or reaches its deadline.
CtxDone ==
    /\ Running
    /\ http.pc \in {"ready", "loop"}
    /\ ~http.ctxDone
    /\ http' = [http EXCEPT !.ctxDone = TRUE]
    /\ UNCHANGED grpcVars

\* One iteration of the loop: the attempt meets o. With the context done,
\* c.httpClient.Do returns the context's error.
Attempt(o) ==
    /\ Running
    /\ http.pc = "loop"
    /\ http.attempt <= http.maxRetries
    /\ http.ctxDone => o.fail = "transport"
    /\ LET a == http.attempt
           e == HandleResponse(o.status, o.parses)
           seen == [http EXCEPT
                       !.tries = Append(@, [out |-> o, ctxErr |-> http.ctxDone])]
           Return(x) == [seen EXCEPT !.pc = "returned", !.res = << x >>]
           Continue(x) == [seen EXCEPT !.lastErr = << x >>, !.attempt = a + 1]
       IN http' =
            IF o.fail = "transport"
            THEN IF http.ctxDone
                 THEN Return(ErrorAt("TimeoutError", a))
                 ELSE Continue(ErrorAt("NetworkError", a))
            ELSE IF o.fail = "read"
            THEN Continue(ErrorAt("NetworkError", a))
            ELSE IF e # "nil"
            THEN IF RetryRateLimit(e, a, http.maxRetries)
                 THEN Continue(ErrorAt(e, a))
                 ELSE Return(ErrorAt(e, a))
            ELSE Return(ErrorAt("nil", a))
    /\ UNCHANGED grpcVars

\* The loop ends with attempt > c.maxRetries: lastErr, or the error made
\* there when lastErr is nil.
LoopExit ==
    /\ Running
    /\ http.pc = "loop"
    /\ http.attempt > http.maxRetries
    /\ http' = [http EXCEPT
                   !.pc = "returned",
                   !.res = IF http.lastErr # Nil THEN http.lastErr
                           ELSE << ErrorAt("NetworkError", NoAttempt) >>]
    /\ UNCHANGED grpcVars

InitHTTP ==
    /\ InitPool
    /\ numStreams = 1

NextHTTP ==
    \/ \E opts \in HTTPOptions : NewHTTPClient(opts)
    \/ ExecuteRequest
    \/ CtxDone
    \/ \E o \in Outcomes : Attempt(o)
    \/ LoopExit

SpecHTTP == InitHTTP /\ [][NextHTTP]_vars

\* The attempt that met t failed in a way that lets the loop go on.
Retryable(t) ==
    \/ t.out.fail = "read"
    \/ t.out.fail = "transport" /\ ~t.ctxErr
    \/ t.out.fail = "none" /\ t.out.status = 429

\* C38: when executeRequest has returned it has made at least 1 and at most
\* maxRetries + 1 attempts, every attempt but the last failed with a
\* transport, read or rate-limit error, and when the last attempt failed too
\* the error returned is the one of the last attempt.
C38_RetryBounded ==
    http.pc = "returned" =>
        LET n == Len(http.tries) IN
        /\ n >= 1
        /\ n <= http.maxRetries + 1
        /\ \A i \in 1 .. (n - 1) : Retryable(http.tries[i])
        /\ http.res[1].kind # "nil" => http.res[1].at = n - 1

\* The error types that end executeRequest whatever the attempt.
FinalErrors ==
    {"AuthenticationError", "AuthorizationError", "NotFoundError",
     "ValidationError", "ServerError", "APIError"}

\* C39: an attempt is followed by another only when it met a transport error
\* with the context not done, a read error, or a 429 response on an attempt
\* before the last one allowed; an attempt whose response is an
\* authentication, authorization, not-found, validation, server or other API
\* error is the last one and its error is returned; a transport error met
\* with the context done is the last attempt and a TimeoutError is returned.
C39_RetryPolicy ==
    \A i \in 1 .. Len(http.tries) :
        LET t == http.tries[i]
            last == i = Len(http.tries)
            e == HandleResponse(t.out.status, t.out.parses)
        IN /\ ~last =>
                  /\ Retryable(t)
                  /\ t.out.fail = "none" => i - 1 < http.maxRetries
           /\ (t.out.fail = "none" /\ t.out.status \notin ParsedStatuses
                   /\ t.out.status \notin {204, 429}) =>
                  /\ e \in FinalErrors
                  /\ last
                  /\ http.pc = "returned"
                  /\ http.res = << ErrorAt(e, i - 1) >>
           /\ (t.out.fail = "transport" /\ t.ctxErr) =>
                  /\ last
                  /\ http.pc = "returned"
                  /\ http.res = << ErrorAt("TimeoutError", i - 1) >>

\* A transport error and a 429 response were retried, then a 404 response
\* ended the request with a NotFoundError.
C39_Witness ==
    /\ http.pc = "returned"
    /\ Len(http.tries) = 3
    /\ http.tries[1].out.fail = "transport"
    /\ http.tries[2].out.status = 429
    /\ http.tries[3].out.status = 404
    /\ http.res = << ErrorAt("NotFoundError", 2) >>
====
